---- MODULE Spec2Model ----
(***************************************************************************)
(* A model of gdbt's stencil resolution (src/gdbt/stencil/stencil.py) and  *)
(* of its resource lifecycle (src/gdbt/resource/resource.py).              *)
(*                                                                         *)
(* Two specifications share the variables:                                 *)
(*   SpecStencil  the pure stencil functions (resolve_vars, resolve, ...)  *)
(*                applied to inputs drawn from bounded sets;               *)
(*   Spec         the Folder / Dashboard lifecycle operations acting on a  *)
(*                remote dashboarding service that may fail any call.      *)
(***************************************************************************)
EXTENDS Integers, Sequences, FiniteSets, TLC

VARIABLES
    st,         \* the last stencil call: its inputs and what it returned
    folders,    \* remote: folder uid -> stored folder (or absent)
    dashboards, \* remote: dashboard uid -> stored dashboard (or absent)
    nextId,     \* remote: the next numeric id the service hands out
    last        \* the last lifecycle call: inputs, remote calls made, outcome

vars == <<st, folders, dashboards, nextId, last>>

remoteVars == <<folders, dashboards, nextId>>

(***************************************************************************)
(* Bounds of the model.                                                    *)
(***************************************************************************)
MaxItems == 2      \* longest loop-item sequence an iterator yields
MaxId == 3         \* numeric ids the remote hands out
MaxVersion == 3    \* highest dashboard version submitted

(***************************************************************************)
(* Python values.  A JSON / loop-item value is a tagged record so that      *)
(* values of different Python types can be compared.                       *)
(***************************************************************************)
Null == [t |-> "null", n |-> 0, s |-> ""]

IntV(n) == [t |-> "int", n |-> n, s |-> ""]

StrV(s) == [t |-> "str", n |-> 0, s |-> s]

IsInt(v) == v.t = "int"

\* Python truthiness: None, "" and 0 are falsy.
Truthy(v) ==
    CASE v.t = "null" -> FALSE
      [] v.t = "str"  -> v.s # ""
      [] v.t = "int"  -> v.n # 0

Digit(d) == CASE d = 0 -> "0" [] d = 1 -> "1" [] d = 2 -> "2" [] d = 3 -> "3"
              [] d = 4 -> "4" [] d = 5 -> "5" [] d = 6 -> "6" [] d = 7 -> "7"
              [] d = 8 -> "8" [] d = 9 -> "9"

RECURSIVE NatStr(_)
NatStr(n) == IF n < 10 THEN Digit(n) ELSE NatStr(n \div 10) \o Digit(n % 10)

\* Python str(value).
PyStr(v) ==
    CASE v.t = "null" -> "None"
      [] v.t = "str"  -> v.s
      [] v.t = "int"  -> IF v.n < 0 THEN "-" \o NatStr(0 - v.n) ELSE NatStr(v.n)

\* str.startswith
StartsWith(s, p) == Len(s) >= Len(p) /\ SubSeq(s, 1, Len(p)) = p

(***************************************************************************)
(* Python dicts.  An unordered dict is a function on a finite set of keys;  *)
(* the dict resolve() builds is kept as a sequence of entries, because its  *)
(* insertion order is observable.                                          *)
(***************************************************************************)
EmptyDict == <<>>

\* {**a, **b}: the entries of b layered on top of those of a.
DictMerge(a, b) ==
    [k \in (DOMAIN a) \cup (DOMAIN b) |-> IF k \in DOMAIN b THEN b[k] ELSE a[k]]

\* d.pop(key, None) for every key of ks.
DictPop(d, ks) == [k \in (DOMAIN d) \ ks |-> d[k]]

\* An optional dict: None, or a dict.
NoneDict == [none |-> TRUE, d |-> EmptyDict]

SomeDict(d) == [none |-> FALSE, d |-> d]

\* `x or {}` / `if not x: x = {}`: None and the empty dict both give {}.
OrEmpty(x) == IF x.none \/ DOMAIN x.d = {} THEN EmptyDict ELSE x.d

OKeys(od) == [i \in 1..Len(od) |-> od[i].k]

OHas(od, k) == \E i \in 1..Len(od) : od[i].k = k

OGet(od, k) == od[CHOOSE i \in 1..Len(od) : od[i].k = k].v

\* resources.update({k: v}) on an insertion-ordered dict.
\* An insertion that keeps the value a key already has.
OUpdate_keepFirst(od, k, v) ==
    IF OHas(od, k) THEN od ELSE Append(od, [k |-> k, v |-> v])

OUpdate(od, k, v) ==
    IF OHas(od, k)
    THEN [i \in 1..Len(od) |-> IF od[i].k = k THEN [k |-> k, v |-> v] ELSE od[i]]
    ELSE Append(od, [k |-> k, v |-> v])

(***************************************************************************)
(* Identity Deriver: ResourceStencil.format_name / format_uid.             *)
(***************************************************************************)
\* A name that drops the loop item.
format_name_noItem(kind, name, loop_item) == kind \o "_" \o name

\* A name that tests the presence of the loop item, not its truthiness.
format_name_ifPresent(kind, name, loop_item) ==
    LET base == kind \o "_" \o name
    IN  IF loop_item # Null THEN base \o "_" \o PyStr(loop_item) ELSE base

format_name(kind, name, loop_item) ==
    LET base == kind \o "_" \o name
    IN  IF Truthy(loop_item) THEN base \o "_" \o PyStr(loop_item) ELSE base

\* hashlib.md5(name.encode()).hexdigest(), kept symbolic: the digest of a
\* name is a string that names its preimage, so that digests are equal
\* exactly when the names are (MD5 has no known collision among them).
md5_hexdigest(name) == "md5<" \o name \o ">"

format_uid(name) == "gdbt_" \o md5_hexdigest(name)

(***************************************************************************)
(* Collaborators of the stencil that live outside the two source files:    *)
(* lazy evaluations, the loop iterator and the template renderer.          *)
(***************************************************************************)
\* An Evaluation is a lazy value; value(providers) forces it.
Lazy(n) == [thunk |-> n]

EvaluationValue(e) == e.thunk

\* Template(self.model).render(providers, evaluations, lookups, item) followed
\* by json.loads: the template's literal body, plus the loop item (as text)
\* under "tag" when the template mentions it, plus a lookup (or evaluation)
\* under "var" when the template mentions one that is bound.
Render(template, evaluations, lookups, item) ==
    LET withItem == IF template.item
                    THEN DictMerge(template.lit, [k \in {"tag"} |-> StrV(PyStr(item))])
                    ELSE template.lit
        bound == IF template.var \in DOMAIN lookups
                 THEN SomeDict([k \in {"var"} |-> IntV(lookups[template.var])])
                 ELSE IF template.var \in DOMAIN evaluations
                      THEN SomeDict([k \in {"var"} |-> IntV(evaluations[template.var])])
                      ELSE NoneDict
    IN  DictMerge(withItem, OrEmpty(bound))

(***************************************************************************)
(* Variable Resolver: ResourceStencil.resolve_vars.                        *)
(* self.evaluations / self.lookups and the two inherited layers are         *)
(* optional dicts.  Returns the pair (evaluations, lookups).               *)
(***************************************************************************)
\* A resolver that layers the inherited bindings on top of the local ones.
resolve_vars_inheritedWins(self, evaluations, lookups) ==
    LET mergedE == DictMerge(OrEmpty(self.evaluations), OrEmpty(evaluations))
        mergedL == DictMerge(OrEmpty(self.lookups), OrEmpty(lookups))
    IN  [evaluations |-> [name \in DOMAIN mergedE |-> EvaluationValue(mergedE[name])],
         lookups     |-> [name \in DOMAIN mergedL |-> mergedL[name]]]

resolve_vars(self, evaluations, lookups) ==
    LET evs == OrEmpty(evaluations)
        lks == OrEmpty(lookups)
        mergedE == DictMerge(evs, OrEmpty(self.evaluations))
        mergedL == DictMerge(lks, OrEmpty(self.lookups))
    IN  [evaluations |-> [name \in DOMAIN mergedE |-> EvaluationValue(mergedE[name])],
         lookups     |-> [name \in DOMAIN mergedL |-> mergedL[name]]]

(***************************************************************************)
(* Loop Expander: ResourceStencil.resolve_loops.  `iterable` is what the    *)
(* iterator yields for the stencil's loop specification.                   *)
(***************************************************************************)
\* An expander that forgets the null sentinel of the no-loop case.
resolve_loops_noSentinel(self, iterable) == iterable

resolve_loops(self, iterable) ==
    IF ~Truthy(self.loop) THEN <<Null>> ELSE iterable

(***************************************************************************)
(* make_resource of the two stencil kinds.  `model` is the parsed body.     *)
(***************************************************************************)
StencilFolder_make_resource(self, grafana, uid, model) ==
    [kind |-> "folder", grafana |-> grafana, uid |-> uid, model |-> model]

StencilDashboard_make_resource(self, grafana, uid, model) ==
    LET model_dict == DictPop(model, {"id"})
        folder_name == IF StartsWith(self.folder, "folder_")
                       THEN self.folder
                       ELSE "folder_" \o self.folder
        folder_uid == format_uid(folder_name)
    IN  [kind |-> "dashboard", grafana |-> grafana, uid |-> uid,
         model |-> model_dict, folder |-> folder_uid]

make_resource(self, grafana, uid, model) ==
    IF self.kind = "dashboard"
    THEN StencilDashboard_make_resource(self, grafana, uid, model)
    ELSE StencilFolder_make_resource(self, grafana, uid, model)

(***************************************************************************)
(* Stencil Resolution: ResourceStencil.resolve.                            *)
(***************************************************************************)
RECURSIVE resolve_loop(_, _, _, _, _, _)
\* The body of resolve's for loop, from item i on.
resolve_loop(self, name, rvars, items, i, resources) ==
    IF i > Len(items) THEN resources
    ELSE LET item == items[i]
             resource_name == format_name(self.kind, name, item)
             uid == format_uid(resource_name)
             model == Render(self.model, rvars.evaluations, rvars.lookups, item)
             resource == make_resource(self, self.provider, uid, model)
         IN  resolve_loop(self, name, rvars, items, i + 1,
                          OUpdate(resources, resource_name, resource))

resolve(self, name, evaluations, lookups, iterable) ==
    LET rvars == resolve_vars(self, evaluations, lookups)
    IN  resolve_loop(self, name, rvars, resolve_loops(self, iterable), 1, <<>>)

(***************************************************************************)
(* Inputs of the stencil functions.                                        *)
(***************************************************************************)
Kinds == {"folder", "dashboard"}

Names == {"a", "a_b", "folder_a"}

\* A folder reference of a Dashboard stencil: a logical name, bare or prefixed.
FolderRefs == Names \cup {"folder_" \o n : n \in Names}

Items == {Null, StrV(""), StrV("b"), IntV(0), IntV(1), StrV("1")}

ItemSeqs == UNION {[1..n -> Items] : n \in 0..MaxItems}

Loops == {Null, StrV(""), StrV("items")}

Dict1(k, v) == [x \in {k} |-> v]

Dict2(k1, v1, k2, v2) == [x \in {k1, k2} |-> IF x = k1 THEN v1 ELSE v2]

Templates ==
    { [lit |-> Dict1("title", StrV("T")), item |-> TRUE, var |-> "b"],
      [lit |-> DictMerge(Dict2("title", StrV("T"), "id", IntV(7)),
                         Dict2("uid", StrV("u"), "version", IntV(2))),
       item |-> FALSE, var |-> ""] }

InheritedEvaluations ==
    {NoneDict, SomeDict(EmptyDict), SomeDict(Dict2("a", Lazy(1), "b", Lazy(2)))}

InheritedLookups ==
    {NoneDict, SomeDict(EmptyDict), SomeDict(Dict2("a", 1, "b", 2))}

LocalEvaluations ==
    {NoneDict, SomeDict(EmptyDict), SomeDict(Dict2("b", Lazy(3), "c", Lazy(4))),
     SomeDict(Dict1("a", Lazy(5)))}

LocalLookups ==
    {NoneDict, SomeDict(EmptyDict), SomeDict(Dict2("b", 3, "c", 4)),
     SomeDict(Dict1("a", 5))}

\* The stencil objects: a Folder stencil has no folder attribute.
Stencil(kind, loop, template, folder, evaluations, lookups) ==
    IF kind = "dashboard"
    THEN [kind |-> kind, provider |-> "p1", loop |-> loop, model |-> template,
          folder |-> folder, evaluations |-> evaluations, lookups |-> lookups]
    ELSE [kind |-> kind, provider |-> "p1", loop |-> loop, model |-> template,
          evaluations |-> evaluations, lookups |-> lookups]

\* Stencils given to resolve: their own variable layers come in two shapes.
Stencils ==
    {Stencil("folder", l, t, "", vs[1], vs[2]) :
        l \in Loops, t \in Templates,
        vs \in {<<NoneDict, NoneDict>>,
                <<SomeDict(Dict1("a", Lazy(5))), SomeDict(Dict2("b", 3, "c", 4))>>}}
    \cup
    {Stencil("dashboard", l, t, f, NoneDict, SomeDict(Dict2("b", 3, "c", 4))) :
        l \in Loops, t \in Templates, f \in FolderRefs}

\* Stencils given to resolve_vars: every combination of the local layers.
VarStencils ==
    {Stencil("folder", Null, t, "", e, l) :
        t \in Templates, e \in LocalEvaluations, l \in LocalLookups}

(***************************************************************************)
(* The stencil actions: each applies one function, once, to inputs it      *)
(* draws; the functions are pure, so one call per behaviour covers them.   *)
(***************************************************************************)
NoCall == [op |-> "none"]

NoLast == [op |-> "none"]

FormatUid ==
    /\ st = NoCall
    /\ \E kind \in Kinds, name \in Names \cup {"a_1"}, item \in Items :
          st' = [op |-> "format_uid", kind |-> kind, name |-> name, item |-> item,
                 resource_name |-> format_name(kind, name, item),
                 uid |-> format_uid(format_name(kind, name, item))]
    /\ UNCHANGED <<folders, dashboards, nextId, last>>

ResolveVars ==
    /\ st = NoCall
    /\ \E self \in VarStencils, evaluations \in InheritedEvaluations,
          lookups \in InheritedLookups :
          st' = [op |-> "resolve_vars", self |-> self,
                 evaluations |-> evaluations, lookups |-> lookups,
                 out |-> resolve_vars(self, evaluations, lookups)]
    /\ UNCHANGED <<folders, dashboards, nextId, last>>

Resolve ==
    /\ st = NoCall
    /\ \E self \in Stencils, name \in Names, iterable \in ItemSeqs,
          inherited \in {<<NoneDict, NoneDict>>,
                         <<SomeDict(Dict2("a", Lazy(1), "b", Lazy(2))),
                           SomeDict(Dict2("a", 1, "b", 2))>>} :
          \* the iterator is consulted only when a loop is declared
          /\ ~Truthy(self.loop) => iterable = <<>>
          /\ st' = [op |-> "resolve", self |-> self, name |-> name,
                    iterable |-> iterable,
                    evaluations |-> inherited[1], lookups |-> inherited[2],
                    out |-> resolve(self, name, inherited[1], inherited[2], iterable)]
    /\ UNCHANGED <<folders, dashboards, nextId, last>>

InitStencil ==
    /\ st = NoCall
    /\ folders = <<>>
    /\ dashboards = <<>>
    /\ nextId = 1
    /\ last = NoLast

NextStencil == FormatUid \/ ResolveVars \/ Resolve

SpecStencil == InitStencil /\ [][NextStencil]_vars

(***************************************************************************)
(* The remote dashboarding service (grafana_api client calls).  Each call   *)
(* answers from the service's state, or, when `fault` is not 0, fails with  *)
(* that status whatever the state: the service may fail any call.           *)
(* A response is [status |-> 200, data |-> ...] or [status |-> error code]; *)
(* a state-changing call also returns the service's new state in `rem`.     *)
(***************************************************************************)
Ok(data) == [status |-> 200, data |-> data]

Fail(status) == [status |-> status]

\* A remote call as the lifecycle code sees it: which call, and its status.
Called(api, resp) == [api |-> api, status |-> resp.status]

\* grafana_api raises GrafanaBadInputError for 400, GrafanaUnauthorizedError
\* for 401, GrafanaClientError for the other 4xx, GrafanaServerError for 5xx.
ExceptionClass(status) ==
    CASE status = 400 -> "GrafanaBadInputError"
      [] status = 401 -> "GrafanaUnauthorizedError"
      [] status >= 402 /\ status < 500 -> "GrafanaClientError"
      [] OTHER -> "GrafanaServerError"

FolderData(rem, uid) ==
    [id |-> rem.folders[uid].id, uid |-> uid, title |-> rem.folders[uid].title]

get_folder(rem, uid, fault) ==
    IF fault # 0 THEN Fail(fault)
    ELSE IF uid \in DOMAIN rem.folders THEN Ok(FolderData(rem, uid))
    ELSE Fail(404)

get_folder_by_id(rem, id, fault) ==
    IF fault # 0 THEN Fail(fault)
    ELSE IF \E u \in DOMAIN rem.folders : rem.folders[u].id = id
         THEN Ok(FolderData(rem, CHOOSE u \in DOMAIN rem.folders : rem.folders[u].id = id))
         ELSE Fail(404)

\* An existing uid answers 412 (precondition failed).
create_folder(rem, title, uid, fault) ==
    IF fault # 0 THEN [status |-> fault, rem |-> rem]
    ELSE IF uid \in DOMAIN rem.folders THEN [status |-> 412, rem |-> rem]
    ELSE [status |-> 200,
          rem |-> [rem EXCEPT
                     !.folders = DictMerge(@, Dict1(uid, [id |-> rem.nextId, title |-> title])),
                     !.nextId = @ + 1]]

update_folder(rem, uid, title, fault) ==
    IF fault # 0 THEN [status |-> fault, rem |-> rem]
    ELSE IF uid \notin DOMAIN rem.folders THEN [status |-> 404, rem |-> rem]
    ELSE [status |-> 200, rem |-> [rem EXCEPT !.folders[uid].title = title]]

\* Deleting a folder deletes the dashboards filed in it.
delete_folder(rem, uid, fault) ==
    IF fault # 0 THEN [status |-> fault, rem |-> rem]
    ELSE IF uid \notin DOMAIN rem.folders THEN [status |-> 404, rem |-> rem]
    ELSE [status |-> 200,
          rem |-> [rem EXCEPT
                     !.folders = DictPop(@, {uid}),
                     !.dashboards =
                        DictPop(@, {d \in DOMAIN rem.dashboards :
                                       rem.dashboards[d].meta.folderId = rem.folders[uid].id})]]

get_dashboard(rem, uid, fault) ==
    IF fault # 0 THEN Fail(fault)
    ELSE IF uid \in DOMAIN rem.dashboards THEN Ok(rem.dashboards[uid])
    ELSE Fail(404)

\* The stored dashboard a submitted body addresses: by numeric id when the
\* body carries one, by uid otherwise.
DashboardTarget(rem, body) ==
    IF IsInt(body["id"])
    THEN {d \in DOMAIN rem.dashboards : rem.dashboards[d].dashboard["id"] = body["id"]}
    ELSE {d \in DOMAIN rem.dashboards : d = body["uid"].s}

\* The service stores what is submitted.  A body with a numeric id that no
\* dashboard has answers 404; an existing dashboard is replaced only under
\* the overwrite flag (412 without it); a new one gets the next numeric id.
update_dashboard(rem, meta, fault) ==
    LET body == meta.dashboard
        target == DashboardTarget(rem, body)
        stored(id) == [dashboard |-> DictMerge(body, Dict1("id", IntV(id))),
                       meta |-> [folderId |-> meta.folderId]]
    IN  IF fault # 0 THEN [status |-> fault, rem |-> rem]
        ELSE IF target = {}
        THEN IF IsInt(body["id"]) THEN [status |-> 404, rem |-> rem]
             ELSE [status |-> 200,
                   rem |-> [rem EXCEPT
                              !.dashboards = DictMerge(@, Dict1(body["uid"].s, stored(rem.nextId))),
                              !.nextId = @ + 1]]
        ELSE IF ~meta.overwrite THEN [status |-> 412, rem |-> rem]
        ELSE LET d == CHOOSE x \in target : TRUE
             IN  [status |-> 200,
                  rem |-> [rem EXCEPT
                             !.dashboards =
                                DictMerge(DictPop(@, {d}),
                                          Dict1(body["uid"].s,
                                                stored(rem.dashboards[d].dashboard["id"].n)))]]

delete_dashboard(rem, uid, fault) ==
    IF fault # 0 THEN [status |-> fault, rem |-> rem]
    ELSE IF uid \notin DOMAIN rem.dashboards THEN [status |-> 404, rem |-> rem]
    ELSE [status |-> 200, rem |-> [rem EXCEPT !.dashboards = DictPop(@, {uid})]]

(***************************************************************************)
(* Resource Lifecycle (resource.py).  Every operation is an operator from   *)
(* the service's state `rem`, its arguments and the faults of the remote    *)
(* calls it makes (faults[i] for its i-th call) to a result:                *)
(*   rem      the service's state afterwards                                *)
(*   calls    the remote calls made, in order, each with its status         *)
(*   outcome  what the caller gets: a returned value or a raised error      *)
(*   body     the body dict the caller passed, as the call leaves it        *)
(*   sent     the dashboard documents submitted to the service              *)
(* The provider registry holds the service key of every call, so            *)
(* Resource.client never raises ProviderNotFound here.                      *)
(***************************************************************************)
\* A list of ignored keys that forgets the version.
IGNORED_KEYS_noVersion == {"id", "uid"}

IGNORED_KEYS == {"id", "uid", "version"}

Return(val) == [kind |-> "return", val |-> val]

Raise(err) == [kind |-> "raise", err |-> err]

Raised(r) == r.outcome.kind = "raise"

None == "None"

FolderObject(grafana, uid, model) ==
    [kind |-> "folder", grafana |-> grafana, uid |-> uid, model |-> model]

DashboardObject(grafana, uid, model, folder) ==
    [kind |-> "dashboard", grafana |-> grafana, uid |-> uid, model |-> model,
     folder |-> folder]

Result(rem, calls, outcome, body, sent) ==
    [rem |-> rem, calls |-> calls, outcome |-> outcome, body |-> body, sent |-> sent]

\* `except GrafanaException` of exists and delete: a 404 client error is the
\* expected answer, anything else is fatal.
IsNotFound(status) == ExceptionClass(status) = "GrafanaClientError" /\ status = 404

Folder_get(rem, grafana, uid, faults) ==
    LET resp == get_folder(rem, uid, faults[1])
        calls == <<Called("get_folder", resp)>>
    IN  IF resp.status # 200
        THEN Result(rem, calls, Raise("GrafanaError"), EmptyDict, <<>>)
        ELSE Result(rem, calls,
                    Return(FolderObject(grafana, uid, Dict1("title", StrV(resp.data.title)))),
                    EmptyDict, <<>>)

\* A create that treats "precondition failed" like any other failure.
Folder_create_strict(rem, grafana, uid, model, faults) ==
    IF "title" \notin DOMAIN model
    THEN Result(rem, <<>>, Raise("DataError"), model, <<>>)
    ELSE LET resp == create_folder(rem, model["title"].s, uid, faults[1])
             calls == <<Called("create_folder", resp)>>
         IN  IF resp.status # 200
             THEN Result(resp.rem, calls, Raise("GrafanaError"), model, <<>>)
             ELSE LET got == Folder_get(resp.rem, grafana, uid, Tail(faults))
                  IN  Result(got.rem, calls \o got.calls, got.outcome, model, <<>>)

\* A create that submits an empty title when the body has none.
Folder_create_defaultTitle(rem, grafana, uid, model, faults) ==
    LET title == IF "title" \in DOMAIN model THEN model["title"].s ELSE ""
        resp == create_folder(rem, title, uid, faults[1])
        calls == <<Called("create_folder", resp)>>
    IN  IF resp.status # 200 /\ resp.status # 412
        THEN Result(resp.rem, calls, Raise("GrafanaError"), model, <<>>)
        ELSE LET got == Folder_get(resp.rem, grafana, uid, Tail(faults))
             IN  Result(got.rem, calls \o got.calls, got.outcome, model, <<>>)

Folder_create(rem, grafana, uid, model, faults) ==
    IF "title" \notin DOMAIN model
    THEN Result(rem, <<>>, Raise("DataError"), model, <<>>)
    ELSE LET resp == create_folder(rem, model["title"].s, uid, faults[1])
             calls == <<Called("create_folder", resp)>>
         IN  IF resp.status # 200 /\ resp.status # 412
             THEN Result(resp.rem, calls, Raise("GrafanaError"), model, <<>>)
             ELSE LET got == Folder_get(resp.rem, grafana, uid, Tail(faults))
                  IN  Result(got.rem, calls \o got.calls, got.outcome, model, <<>>)

Folder_exists(rem, grafana, uid, faults) ==
    LET resp == get_folder(rem, uid, faults[1])
        calls == <<Called("get_folder", resp)>>
    IN  IF resp.status = 200 THEN Result(rem, calls, Return(TRUE), EmptyDict, <<>>)
        ELSE IF IsNotFound(resp.status)
             THEN Result(rem, calls, Return(FALSE), EmptyDict, <<>>)
             ELSE Result(rem, calls, Raise("GrafanaError"), EmptyDict, <<>>)

Folder_get_by_id(rem, grafana, id, faults) ==
    LET resp == get_folder_by_id(rem, id, faults[1])
        calls == <<Called("get_folder_by_id", resp)>>
    IN  IF resp.status # 200
        THEN Result(rem, calls, Raise("GrafanaError"), EmptyDict, <<>>)
        ELSE Result(rem, calls,
                    Return(FolderObject(grafana, resp.data.uid,
                                        Dict1("title", StrV(resp.data.title)))),
                    EmptyDict, <<>>)

\* An id that answers 0 (the service's root folder) when the folder is not found.
Folder_id_notFoundIsRoot(rem, self, faults) ==
    LET resp == get_folder(rem, self.uid, faults[1])
        calls == <<Called("get_folder", resp)>>
    IN  IF resp.status = 200
        THEN Result(rem, calls, Return(resp.data.id), EmptyDict, <<>>)
        ELSE IF resp.status = 404
             THEN Result(rem, calls, Return(0), EmptyDict, <<>>)
             ELSE Result(rem, calls, Raise("GrafanaError"), EmptyDict, <<>>)

Folder_id(rem, self, faults) ==
    LET resp == get_folder(rem, self.uid, faults[1])
        calls == <<Called("get_folder", resp)>>
    IN  IF resp.status # 200
        THEN Result(rem, calls, Raise("GrafanaError"), EmptyDict, <<>>)
        ELSE Result(rem, calls, Return(resp.data.id), EmptyDict, <<>>)

\* An update that submits the title the resource object holds, not the
\* title of the body given.
Folder_update_ownTitle(rem, self, model, faults) ==
    IF "title" \notin DOMAIN model
    THEN Result(rem, <<>>, Raise("DataError"), model, <<>>)
    ELSE LET resp == update_folder(rem, self.uid, self.model["title"].s, faults[1])
             calls == <<Called("update_folder", resp)>>
         IN  IF resp.status # 200
             THEN Result(resp.rem, calls, Raise("GrafanaError"), model, <<>>)
             ELSE Result(resp.rem, calls, Return(None), model, <<>>)

Folder_update(rem, self, model, faults) ==
    IF "title" \notin DOMAIN model
    THEN Result(rem, <<>>, Raise("DataError"), model, <<>>)
    ELSE LET resp == update_folder(rem, self.uid, model["title"].s, faults[1])
             calls == <<Called("update_folder", resp)>>
         IN  IF resp.status # 200
             THEN Result(resp.rem, calls, Raise("GrafanaError"), model, <<>>)
             ELSE Result(resp.rem, calls, Return(None), model, <<>>)

\* A delete for which every failure is fatal.
Folder_delete_strict(rem, self, faults) ==
    LET resp == delete_folder(rem, self.uid, faults[1])
        calls == <<Called("delete_folder", resp)>>
    IN  IF resp.status = 200
        THEN Result(resp.rem, calls, Return(None), EmptyDict, <<>>)
        ELSE Result(resp.rem, calls, Raise("GrafanaError"), EmptyDict, <<>>)

Folder_delete(rem, self, faults) ==
    LET resp == delete_folder(rem, self.uid, faults[1])
        calls == <<Called("delete_folder", resp)>>
    IN  IF resp.status = 200 \/ IsNotFound(resp.status)
        THEN Result(resp.rem, calls, Return(None), EmptyDict, <<>>)
        ELSE Result(resp.rem, calls, Raise("GrafanaError"), EmptyDict, <<>>)

Folder_serialize(self) ==
    [kind |-> "folder", grafana |-> self.grafana, uid |-> self.uid, model |-> self.model]

\* A get that hands back the remote numeric folder id (as text) untranslated.
Dashboard_get_numericFolder(rem, grafana, uid, faults) ==
    LET resp == get_dashboard(rem, uid, faults[1])
        calls == <<Called("get_dashboard", resp)>>
    IN  IF resp.status # 200
        THEN Result(rem, calls, Raise("GrafanaError"), EmptyDict, <<>>)
        ELSE Result(rem, calls,
                    Return(DashboardObject(grafana, uid,
                                           DictPop(resp.data.dashboard, IGNORED_KEYS),
                                           NatStr(resp.data.meta.folderId))),
                    EmptyDict, <<>>)

Dashboard_get(rem, grafana, uid, faults) ==
    LET resp == get_dashboard(rem, uid, faults[1])
        calls == <<Called("get_dashboard", resp)>>
    IN  IF resp.status # 200
        THEN Result(rem, calls, Raise("GrafanaError"), EmptyDict, <<>>)
        ELSE LET model == resp.data.dashboard
                 owner == Folder_get_by_id(rem, grafana, resp.data.meta.folderId,
                                           Tail(faults))
             IN  IF Raised(owner)
                 THEN Result(rem, calls \o owner.calls, owner.outcome, EmptyDict, <<>>)
                 ELSE Result(rem, calls \o owner.calls,
                             Return(DashboardObject(grafana, uid,
                                                    DictPop(model, IGNORED_KEYS),
                                                    owner.outcome.val.uid)),
                             EmptyDict, <<>>)

\* A create that submits without the overwrite flag.
Dashboard_create_noOverwrite(rem, grafana, uid, model, folder, faults) ==
    LET body == DictMerge(model, [k \in {"id", "uid", "version"} |->
                                     CASE k = "id" -> Null
                                       [] k = "uid" -> StrV(uid)
                                       [] k = "version" -> IntV(1)])
        got == Folder_get(rem, grafana, folder, faults)
    IN  IF Raised(got) THEN Result(rem, got.calls, got.outcome, body, <<>>)
        ELSE
        LET fid == Folder_id(rem, got.outcome.val, Tail(faults))
            calls2 == got.calls \o fid.calls
        IN  IF Raised(fid) THEN Result(rem, calls2, fid.outcome, body, <<>>)
            ELSE
            LET meta == [dashboard |-> body, folderId |-> fid.outcome.val,
                         overwrite |-> FALSE]
                resp == update_dashboard(rem, meta, faults[3])
                calls3 == Append(calls2, Called("update_dashboard", resp))
            IN  IF resp.status # 200
                THEN Result(resp.rem, calls3, Raise("GrafanaError"), body, <<meta>>)
                ELSE LET back == Dashboard_get(resp.rem, grafana, uid,
                                               Tail(Tail(Tail(faults))))
                     IN  Result(back.rem, calls3 \o back.calls, back.outcome,
                                body, <<meta>>)

Dashboard_create(rem, grafana, uid, model, folder, faults) ==
    LET body == DictMerge(model, [k \in {"id", "uid", "version"} |->
                                     CASE k = "id" -> Null
                                       [] k = "uid" -> StrV(uid)
                                       [] k = "version" -> IntV(1)])
        got == Folder_get(rem, grafana, folder, faults)
    IN  IF Raised(got) THEN Result(rem, got.calls, got.outcome, body, <<>>)
        ELSE
        LET fid == Folder_id(rem, got.outcome.val, Tail(faults))
            calls2 == got.calls \o fid.calls
        IN  IF Raised(fid) THEN Result(rem, calls2, fid.outcome, body, <<>>)
            ELSE
            LET meta == [dashboard |-> body, folderId |-> fid.outcome.val,
                         overwrite |-> TRUE]
                resp == update_dashboard(rem, meta, faults[3])
                calls3 == Append(calls2, Called("update_dashboard", resp))
            IN  IF resp.status # 200
                THEN Result(resp.rem, calls3, Raise("GrafanaError"), body, <<meta>>)
                ELSE LET back == Dashboard_get(resp.rem, grafana, uid,
                                               Tail(Tail(Tail(faults))))
                     IN  Result(back.rem, calls3 \o back.calls, back.outcome,
                                body, <<meta>>)

\* An exists that answers False to every failure.
Dashboard_exists_lenient(rem, grafana, uid, faults) ==
    LET resp == get_dashboard(rem, uid, faults[1])
    IN  Result(rem, <<Called("get_dashboard", resp)>>, Return(resp.status = 200),
               EmptyDict, <<>>)

Dashboard_exists(rem, grafana, uid, faults) ==
    LET resp == get_dashboard(rem, uid, faults[1])
        calls == <<Called("get_dashboard", resp)>>
    IN  IF resp.status = 200 THEN Result(rem, calls, Return(TRUE), EmptyDict, <<>>)
        ELSE IF IsNotFound(resp.status)
             THEN Result(rem, calls, Return(FALSE), EmptyDict, <<>>)
             ELSE Result(rem, calls, Raise("GrafanaError"), EmptyDict, <<>>)

\* dashboard["dashboard"][key] of a fresh read: id() and version().
DashboardField(rem, self, key, faults) ==
    LET resp == get_dashboard(rem, self.uid, faults[1])
        calls == <<Called("get_dashboard", resp)>>
    IN  IF resp.status # 200
        THEN Result(rem, calls, Raise("GrafanaError"), EmptyDict, <<>>)
        ELSE IF key \notin DOMAIN resp.data.dashboard
             THEN Result(rem, calls, Raise("KeyError"), EmptyDict, <<>>)
             ELSE Result(rem, calls, Return(resp.data.dashboard[key]), EmptyDict, <<>>)

Dashboard_id(rem, self, faults) == DashboardField(rem, self, "id", faults)

Dashboard_version(rem, self, faults) == DashboardField(rem, self, "version", faults)

\* self.version(providers) + 1, a TypeError giving 1.
VersionNew(version) == IF IsInt(version) THEN version.n + 1 ELSE 1

Dashboard_update(rem, self, model, faults) ==
    LET ver == Dashboard_version(rem, self, faults)
    IN  IF Raised(ver) THEN Result(rem, ver.calls, ver.outcome, model, <<>>)
        ELSE
        LET version_new == VersionNew(ver.outcome.val)
            did == Dashboard_id(rem, self, Tail(faults))
            calls2 == ver.calls \o did.calls
        IN  IF Raised(did) THEN Result(rem, calls2, did.outcome, model, <<>>)
            ELSE
            LET body == DictMerge(model, [k \in {"id", "uid", "version"} |->
                                             CASE k = "id" -> did.outcome.val
                                               [] k = "uid" -> StrV(self.uid)
                                               [] k = "version" -> IntV(version_new)])
                got == Folder_get(rem, self.grafana, self.folder, Tail(Tail(faults)))
                calls3 == calls2 \o got.calls
            IN  IF Raised(got) THEN Result(rem, calls3, got.outcome, body, <<>>)
                ELSE
                LET fid == Folder_id(rem, got.outcome.val, Tail(Tail(Tail(faults))))
                    calls4 == calls3 \o fid.calls
                IN  IF Raised(fid) THEN Result(rem, calls4, fid.outcome, body, <<>>)
                    ELSE
                    LET meta == [dashboard |-> body, folderId |-> fid.outcome.val,
                                 overwrite |-> TRUE]
                        resp == update_dashboard(rem, meta, faults[5])
                        calls5 == Append(calls4, Called("update_dashboard", resp))
                    IN  IF resp.status # 200
                        THEN Result(resp.rem, calls5, Raise("GrafanaError"), body, <<meta>>)
                        ELSE Result(resp.rem, calls5, Return(None), body, <<meta>>)

Dashboard_delete(rem, self, faults) ==
    LET resp == delete_dashboard(rem, self.uid, faults[1])
        calls == <<Called("delete_dashboard", resp)>>
    IN  IF resp.status = 200 \/ IsNotFound(resp.status)
        THEN Result(resp.rem, calls, Return(None), EmptyDict, <<>>)
        ELSE Result(resp.rem, calls, Raise("GrafanaError"), EmptyDict, <<>>)

Dashboard_serialize(self) ==
    [kind |-> "dashboard", grafana |-> self.grafana, uid |-> self.uid,
     model |-> self.model, folder |-> self.folder]

(***************************************************************************)
(* Inputs of the lifecycle operations.                                     *)
(***************************************************************************)
Grafana == "p1"

FolderUids == {format_uid("folder_a"), format_uid("folder_a_b")}

DashboardUids == {format_uid("dashboard_a")}

FolderModels == {Dict1("title", StrV("T")), Dict1("title", StrV("U")), EmptyDict}

\* The Dashboard resources stencil resolution produces for logical name "a":
\* one per template and folder reference, no loop.
ResolvedDashboards ==
    {resolve(Stencil("dashboard", Null, t, f, NoneDict, SomeDict(Dict2("b", 3, "c", 4))),
             "a", NoneDict, NoneDict, <<>>)[1].v :
        t \in Templates, f \in {"a", "a_b"}}

\* Bodies given to Dashboard.create / update: the model of a resolved
\* resource, or a hand-written one.
DashboardModels == {Dict1("title", StrV("U"))} \cup {D.model : D \in ResolvedDashboards}

FolderObjects == {FolderObject(Grafana, u, Dict1("title", StrV("T"))) : u \in FolderUids}

DashboardObjects ==
    {DashboardObject(Grafana, u, Dict1("title", StrV("T")), f) :
        u \in DashboardUids, f \in FolderUids}

\* The statuses a failing remote call answers with.
Statuses == {404, 412, 500}

\* Faults of an operation's n remote calls.  Every operation but
\* Folder.create ends at its first failed call, so one injected fault covers
\* it; Folder.create goes on after a 412 and takes a fault per call.
OneFault(n) ==
    {[i \in 1..n |-> 0]} \cup
    {[i \in 1..n |-> IF i = p THEN s ELSE 0] : p \in 1..n, s \in Statuses}

AnyFaults(n) == [1..n -> {0} \cup Statuses]

(***************************************************************************)
(* The lifecycle actions.  `last` records the call in progress: an          *)
(* operation starts when the caller holds no result, and TakeResult hands   *)
(* the result over.                                                         *)
(***************************************************************************)
Remote == [folders |-> folders, dashboards |-> dashboards, nextId |-> nextId]

Args(uid, model, folder, id) ==
    [uid |-> uid, model |-> model, folder |-> folder, id |-> id]

\* The numeric ids and the versions stay within the bounds of the model.
WithinBounds(r) ==
    /\ r.rem.nextId <= MaxId + 1
    /\ \A i \in 1..Len(r.sent) : r.sent[i].dashboard["version"].n <= MaxVersion

Apply(op, args, r) ==
    /\ last = NoLast
    /\ WithinBounds(r)
    /\ folders' = r.rem.folders
    /\ dashboards' = r.rem.dashboards
    /\ nextId' = r.rem.nextId
    /\ last' = [op |-> op, args |-> args, calls |-> r.calls, outcome |-> r.outcome,
                body |-> r.body, sent |-> r.sent]
    /\ UNCHANGED st

FolderCreate ==
    \E uid \in FolderUids, model \in FolderModels, faults \in AnyFaults(2) :
        Apply("Folder.create", Args(uid, model, "", 0),
              Folder_create(Remote, Grafana, uid, model, faults))

FolderGet ==
    \E uid \in FolderUids, faults \in OneFault(1) :
        Apply("Folder.get", Args(uid, EmptyDict, "", 0),
              Folder_get(Remote, Grafana, uid, faults))

FolderExists ==
    \E uid \in FolderUids, faults \in OneFault(1) :
        Apply("Folder.exists", Args(uid, EmptyDict, "", 0),
              Folder_exists(Remote, Grafana, uid, faults))

FolderGetById ==
    \E id \in 1..MaxId, faults \in OneFault(1) :
        Apply("Folder.get_by_id", Args("", EmptyDict, "", id),
              Folder_get_by_id(Remote, Grafana, id, faults))

FolderId ==
    \E self \in FolderObjects, faults \in OneFault(1) :
        Apply("Folder.id", Args(self.uid, EmptyDict, "", 0),
              Folder_id(Remote, self, faults))

FolderUpdate ==
    \E self \in FolderObjects, model \in FolderModels, faults \in OneFault(1) :
        Apply("Folder.update", Args(self.uid, model, "", 0),
              Folder_update(Remote, self, model, faults))

FolderDelete ==
    \E self \in FolderObjects, faults \in OneFault(1) :
        Apply("Folder.delete", Args(self.uid, EmptyDict, "", 0),
              Folder_delete(Remote, self, faults))

DashboardCreate ==
    \E uid \in DashboardUids, model \in DashboardModels, folder \in FolderUids,
       faults \in OneFault(5) :
        Apply("Dashboard.create", Args(uid, model, folder, 0),
              Dashboard_create(Remote, Grafana, uid, model, folder, faults))

DashboardGet ==
    \E uid \in DashboardUids, faults \in OneFault(2) :
        Apply("Dashboard.get", Args(uid, EmptyDict, "", 0),
              Dashboard_get(Remote, Grafana, uid, faults))

DashboardExists ==
    \E uid \in DashboardUids, faults \in OneFault(1) :
        Apply("Dashboard.exists", Args(uid, EmptyDict, "", 0),
              Dashboard_exists(Remote, Grafana, uid, faults))

DashboardId ==
    \E self \in DashboardObjects, faults \in OneFault(1) :
        Apply("Dashboard.id", Args(self.uid, EmptyDict, self.folder, 0),
              Dashboard_id(Remote, self, faults))

DashboardVersion ==
    \E self \in DashboardObjects, faults \in OneFault(1) :
        Apply("Dashboard.version", Args(self.uid, EmptyDict, self.folder, 0),
              Dashboard_version(Remote, self, faults))

DashboardUpdate ==
    \E self \in DashboardObjects, model \in DashboardModels, faults \in OneFault(5) :
        Apply("Dashboard.update", Args(self.uid, model, self.folder, 0),
              Dashboard_update(Remote, self, model, faults))

DashboardDelete ==
    \E self \in DashboardObjects, faults \in OneFault(1) :
        Apply("Dashboard.delete", Args(self.uid, EmptyDict, self.folder, 0),
              Dashboard_delete(Remote, self, faults))

\* The resource the last call returned, if it returned one.
ReturnedResource ==
    /\ last.op \in {"Folder.create", "Folder.get", "Folder.get_by_id",
                    "Dashboard.create", "Dashboard.get"}
    /\ last.outcome.kind = "return"

\* serialize() of the resource the caller was just handed.
Serialize ==
    /\ last # NoLast
    /\ ReturnedResource
    /\ LET self == last.outcome.val
       IN  last' = [op |-> "serialize", args |-> Args(self.uid, self.model, "", 0),
                    calls |-> <<>>,
                    outcome |-> Return(IF self.kind = "dashboard"
                                       THEN Dashboard_serialize(self)
                                       ELSE Folder_serialize(self)),
                    body |-> EmptyDict, sent |-> <<>>]
    /\ UNCHANGED <<st, folders, dashboards, nextId>>

\* The caller takes the result; the next operation can start.
TakeResult ==
    /\ last # NoLast
    /\ last' = NoLast
    /\ UNCHANGED <<st, folders, dashboards, nextId>>

(***************************************************************************)
(* The service at the start: empty, or holding a folder with a dashboard    *)
(* whose version is null, not a number, or missing.                         *)
(***************************************************************************)
OddDashboards ==
    LET base == DictMerge(Dict2("id", IntV(2), "uid", StrV(format_uid("dashboard_a"))),
                          Dict1("title", StrV("T")))
    IN  {DictMerge(base, Dict1("version", Null)),
         DictMerge(base, Dict1("version", StrV("v"))),
         base}

Init ==
    /\ st = NoCall
    /\ last = NoLast
    /\ \/ /\ folders = <<>>
          /\ dashboards = <<>>
          /\ nextId = 1
       \/ /\ folders = Dict1(format_uid("folder_a"), [id |-> 1, title |-> "T"])
          /\ \E d \in OddDashboards :
                dashboards = Dict1(format_uid("dashboard_a"),
                                   [dashboard |-> d, meta |-> [folderId |-> 1]])
          /\ nextId = 3

Next ==
    \/ FolderCreate \/ FolderGet \/ FolderExists \/ FolderGetById \/ FolderId
    \/ FolderUpdate \/ FolderDelete
    \/ DashboardCreate \/ DashboardGet \/ DashboardExists \/ DashboardId
    \/ DashboardVersion \/ DashboardUpdate \/ DashboardDelete
    \/ Serialize \/ TakeResult

Spec == Init /\ [][Next]_vars

(***************************************************************************)
(* Claims about the stencil functions (checked under SpecStencil).         *)
(***************************************************************************)
IsResolve == st.op = "resolve"

\* The items resolve iterates over, and the instance name of each.
LoopItemsOf(c) == IF Truthy(c.self.loop) THEN c.iterable ELSE <<Null>>

InstanceNames(c) ==
    [i \in 1..Len(LoopItemsOf(c)) |->
        format_name(c.self.kind, c.name, LoopItemsOf(c)[i])]

Distinct(seq) == \A i, j \in 1..Len(seq) : i # j => seq[i] # seq[j]

RECURSIVE FirstOccurrences(_, _, _)
\* seq without the repetitions of an earlier element, from position i on.
FirstOccurrences(seq, i, acc) ==
    IF i > Len(seq) THEN acc
    ELSE FirstOccurrences(seq, i + 1,
            IF \E j \in 1..Len(acc) : acc[j] = seq[i] THEN acc ELSE Append(acc, seq[i]))

\* C1 as stated: resolve returns exactly 1 entry when no loop is declared,
\* and with a loop whose iterator yields N items exactly N entries, keyed by
\* format_name of each item in iterator order.
C1_Original ==
    IsResolve =>
        /\ ~Truthy(st.self.loop) => Len(st.out) = 1
        /\ Truthy(st.self.loop) =>
              /\ Len(st.out) = Len(st.iterable)
              /\ OKeys(st.out) = InstanceNames(st)

\* C1 amended: with no loop (null or empty) resolve returns exactly 1 entry,
\* keyed format_name(kind, name, None); with a loop of N items it returns one
\* entry per distinct instance name, keyed by format_name of the items in the
\* order of their first occurrence: exactly N entries, in iterator order,
\* when the N instance names are pairwise distinct, fewer otherwise.
C1_ResolveEntries ==
    IsResolve =>
        /\ ~Truthy(st.self.loop) =>
              OKeys(st.out) = <<format_name(st.self.kind, st.name, Null)>>
        /\ Truthy(st.self.loop) =>
              /\ OKeys(st.out) = FirstOccurrences(InstanceNames(st), 1, <<>>)
              /\ Len(st.out) <= Len(st.iterable)
              /\ Distinct(InstanceNames(st)) =>
                    /\ Len(st.out) = Len(st.iterable)
                    /\ OKeys(st.out) = InstanceNames(st)
        /\ \A i \in 1..Len(st.out) :
              st.out[i].v.uid = format_uid(st.out[i].k)

\* A loop of two items with different instance names gave two entries.
C1_Witness ==
    /\ IsResolve
    /\ Truthy(st.self.loop)
    /\ Len(st.iterable) = 2
    /\ Distinct(InstanceNames(st))
    /\ Len(st.out) = 2

\* The resource a Folder stencil with no loop resolves to for logical name n.
FolderResourceOf(n) ==
    resolve(Stencil("folder", Null, [lit |-> Dict1("title", StrV("T")),
                                     item |-> FALSE, var |-> ""],
                    "", NoneDict, NoneDict),
            n, NoneDict, NoneDict, <<>>)[1].v

\* C5: a Dashboard stencil whose folder reference is the logical name n of a
\* folder, written as n or as "folder_" + n, resolves to resources whose
\* folder field is format_uid("folder_" + n), the uid of the resource the
\* Folder stencil named n resolves to.
C5_FolderReference ==
    (IsResolve /\ st.self.kind = "dashboard") =>
        \A n \in Names :
            st.self.folder \in {n, "folder_" \o n} =>
                \A i \in 1..Len(st.out) :
                    /\ st.out[i].v.folder = format_uid("folder_" \o n)
                    /\ st.out[i].v.folder = FolderResourceOf(n).uid

\* The value each layer binds a name to, and the optional layers as dicts.
LayerOf(x) == IF x.none THEN EmptyDict ELSE x.d

LocalWins(local, inherited, name) ==
    IF name \in DOMAIN local THEN local[name] ELSE inherited[name]

\* C6: resolve_vars returns, for evaluations and for lookups alike, the union
\* of the inherited and the local bindings, a name bound in both taking the
\* local stencil's value; an absent inherited map counts as the empty map.
C6_ResolveVars ==
    st.op = "resolve_vars" =>
        LET inhE == LayerOf(st.evaluations)
            inhL == LayerOf(st.lookups)
            locE == LayerOf(st.self.evaluations)
            locL == LayerOf(st.self.lookups)
        IN  /\ DOMAIN st.out.evaluations = (DOMAIN inhE) \cup (DOMAIN locE)
            /\ DOMAIN st.out.lookups = (DOMAIN inhL) \cup (DOMAIN locL)
            /\ \A name \in DOMAIN st.out.evaluations :
                  st.out.evaluations[name] = LocalWins(locE, inhE, name).thunk
            /\ \A name \in DOMAIN st.out.lookups :
                  st.out.lookups[name] = LocalWins(locL, inhL, name)
            /\ (/\ st.evaluations = SomeDict(Dict2("a", Lazy(1), "b", Lazy(2)))
                /\ st.self.evaluations = SomeDict(Dict2("b", Lazy(3), "c", Lazy(4))))
                  => st.out.evaluations = [x \in {"a", "b", "c"} |->
                                              CASE x = "a" -> 1 [] x = "b" -> 3 [] x = "c" -> 4]
            /\ (/\ st.lookups = SomeDict(Dict2("a", 1, "b", 2))
                /\ st.self.lookups = SomeDict(Dict2("b", 3, "c", 4)))
                  => st.out.lookups = [x \in {"a", "b", "c"} |->
                                          CASE x = "a" -> 1 [] x = "b" -> 3 [] x = "c" -> 4]

\* Inherited {a:1,b:2} met local {b:3,c:4} in the evaluations while the
\* inherited lookups were absent.
C6_Witness ==
    /\ st.op = "resolve_vars"
    /\ st.evaluations = SomeDict(Dict2("a", Lazy(1), "b", Lazy(2)))
    /\ st.self.evaluations = SomeDict(Dict2("b", Lazy(3), "c", Lazy(4)))
    /\ st.lookups = NoneDict
    /\ st.out.evaluations["b"] = 3
    /\ DOMAIN st.out.lookups = DOMAIN LayerOf(st.self.lookups)

\* The triples (kind, name, item) uids are derived from.
Triples == Kinds \X (Names \cup {"a_1"}) \X Items

UidOf(t) == format_uid(format_name(t[1], t[2], t[3]))

\* C7 as stated: two different (kind, name, item) triples never derive the
\* same uid.
C7_Original ==
    st.op = "format_uid" =>
        \A t \in Triples :
            t # <<st.kind, st.name, st.item>> => UidOf(t) # st.uid

\* C7 amended: changing the kind always changes the uid, and so does changing
\* only the name; changing only the item changes the uid unless both items
\* are falsy or have the same string form.  (Triples that differ in both name
\* and item can derive the same name and uid: name "a" with item "b", and
\* name "a_b" with no item.)
C7_UidSeparation ==
    st.op = "format_uid" =>
        \A t \in Triples :
            /\ t[1] # st.kind => UidOf(t) # st.uid
            /\ (t[1] = st.kind /\ t[2] # st.name /\ t[3] = st.item)
                  => UidOf(t) # st.uid
            /\ (t[1] = st.kind /\ t[2] = st.name) =>
                  (UidOf(t) = st.uid <=>
                      \/ ~Truthy(t[3]) /\ ~Truthy(st.item)
                      \/ /\ Truthy(t[3]) /\ Truthy(st.item)
                         /\ PyStr(t[3]) = PyStr(st.item))

\* The uid of name "a" with item "b" was derived: it is also the uid of name
\* "a_b" with no item.
C7_Witness ==
    /\ st.op = "format_uid"
    /\ st.name = "a"
    /\ st.item = StrV("b")
    /\ st.uid = UidOf(<<st.kind, "a_b", Null>>)

(***************************************************************************)
(* Claims about the resource lifecycle (checked under Spec).               *)
(***************************************************************************)
LastIs(op) == last.op = op

\* The status of the i-th remote call of the last operation.
Status(i) == last.calls[i].status

\* The folder object get returns for what the service stores under uid.
StoredFolder(uid) ==
    FolderObject(Grafana, uid, Dict1("title", StrV(folders[uid].title)))

\* C2 as stated: Folder.create for a uid that exists remotely, the create
\* call answering 412, completes without raising and returns the folder as
\* stored; a create failure with any other status raises the fatal error.
C2_Original ==
    (LastIs("Folder.create") /\ Len(last.calls) >= 1) =>
        /\ (Status(1) = 412 /\ last.args.uid \in DOMAIN folders) =>
              last.outcome = Return(StoredFolder(last.args.uid))
        /\ Status(1) \notin {200, 412} => last.outcome = Raise("GrafanaError")

\* C2 amended: a 412 answer of the create call is not raised: create goes on
\* to re-read the folder through get, and returns the folder as it is stored
\* remotely when that read succeeds, or raises the fatal remote-service error
\* when that read fails; a create failure with any other status raises the
\* fatal remote-service error without re-reading.
C2_CreateExisting ==
    (LastIs("Folder.create") /\ Len(last.calls) >= 1) =>
        /\ Status(1) = 412 =>
              /\ Len(last.calls) = 2
              /\ last.calls[2].api = "get_folder"
              /\ Status(2) = 200 =>
                    /\ last.args.uid \in DOMAIN folders
                    /\ last.outcome = Return(StoredFolder(last.args.uid))
              /\ Status(2) # 200 => last.outcome = Raise("GrafanaError")
        /\ Status(1) \notin {200, 412} =>
              /\ Len(last.calls) = 1
              /\ last.outcome = Raise("GrafanaError")

\* A create of an existing folder, asking for another title, was answered 412
\* and returned the folder with the title the service stores.
C2_Witness ==
    /\ LastIs("Folder.create")
    /\ Len(last.calls) = 2
    /\ Status(1) = 412
    /\ last.args.uid \in DOMAIN folders
    /\ last.outcome = Return(StoredFolder(last.args.uid))
    /\ last.args.model # last.outcome.val.model

\* C3: delete of a Folder or Dashboard whose uid the remote reports as not
\* found returns normally and leaves the remote state unchanged; any other
\* remote failure of delete raises the fatal remote-service error.
C3_DeleteNotFound ==
    [][(last'.op \in {"Folder.delete", "Dashboard.delete"}) =>
          /\ last'.calls[1].status = 404 =>
                /\ last'.outcome = Return(None)
                /\ UNCHANGED remoteVars
          /\ last'.calls[1].status \notin {200, 404} =>
                last'.outcome = Raise("GrafanaError")]_vars

\* A folder the service does not hold was deleted: 404, and a normal return.
C3_Witness ==
    /\ LastIs("Folder.delete")
    /\ last.args.uid \notin DOMAIN folders
    /\ Status(1) = 404
    /\ last.outcome = Return(None)

\* C4: the resource Dashboard.get returns has a model without the keys id,
\* uid and version, and so has the model inside its serialize() output.
C4_GetStripsVolatileKeys ==
    /\ (LastIs("Dashboard.get") /\ last.outcome.kind = "return") =>
          (DOMAIN last.outcome.val.model) \cap {"id", "uid", "version"} = {}
    /\ (LastIs("serialize") /\ last.outcome.val.kind = "dashboard") =>
          (DOMAIN last.outcome.val.model) \cap {"id", "uid", "version"} = {}

\* A fetched dashboard was serialized while the service stores it with all
\* three volatile keys.
C4_Witness ==
    /\ LastIs("serialize")
    /\ last.outcome.val.kind = "dashboard"
    /\ last.outcome.val.uid \in DOMAIN dashboards
    /\ {"id", "uid", "version"} \subseteq DOMAIN dashboards[last.outcome.val.uid].dashboard
    /\ "title" \in DOMAIN last.outcome.val.model

\* C8: exists, of Folder and of Dashboard, returns true exactly when the
\* remote read succeeds, false exactly when it fails with 404, and raises the
\* fatal remote-service error for every other failure.
C8_Exists ==
    last.op \in {"Folder.exists", "Dashboard.exists"} =>
        /\ Len(last.calls) = 1
        /\ (last.outcome = Return(TRUE)) <=> (Status(1) = 200)
        /\ (last.outcome = Return(FALSE)) <=> (Status(1) = 404)
        /\ (last.outcome = Raise("GrafanaError")) <=> (Status(1) \notin {200, 404})

\* exists of a dashboard met a failure that is not "not found" and raised.
C8_Witness ==
    /\ LastIs("Dashboard.exists")
    /\ Status(1) = 500
    /\ last.outcome = Raise("GrafanaError")

SomeCallNotFound == \E i \in 1..Len(last.calls) : Status(i) = 404

\* C9: a remote "not found" answer is consumed by exists (false) and by
\* delete (normal return) only; in get, get_by_id, id, version, create and
\* update, of Folder and of Dashboard, a "not found" answer of any remote
\* call the operation makes is raised as the fatal remote-service error.
C9_NotFoundPropagation ==
    /\ (last.op \in {"Folder.get", "Folder.get_by_id", "Folder.id", "Folder.create",
                     "Folder.update", "Dashboard.get", "Dashboard.id",
                     "Dashboard.version", "Dashboard.create", "Dashboard.update"}
        /\ SomeCallNotFound)
          => last.outcome = Raise("GrafanaError")
    /\ (last.op \in {"Folder.exists", "Dashboard.exists"} /\ SomeCallNotFound)
          => last.outcome = Return(FALSE)
    /\ (last.op \in {"Folder.delete", "Dashboard.delete"} /\ SomeCallNotFound)
          => last.outcome = Return(None)

\* The id of a folder the service does not hold was asked for, and the
\* "not found" answer was raised.
C9_Witness ==
    /\ LastIs("Folder.id")
    /\ last.args.uid \notin DOMAIN folders
    /\ Status(1) = 404
    /\ last.outcome = Raise("GrafanaError")

AllCallsOk(c) == \A i \in 1..Len(c.calls) : c.calls[i].status = 200

\* The version update is to submit over a current version: current + 1, and
\* 1 (the first write) over a missing or non-numeric one.
SubmittedVersionOver(doc) ==
    IF "version" \in DOMAIN doc /\ IsInt(doc["version"])
    THEN doc["version"].n + 1
    ELSE 1

\* C10: Dashboard.update, when no remote call fails, submits the body with
\* version = current version + 1, a missing or non-numeric current version
\* giving version 1, with id = the dashboard's current remote id and uid =
\* the resource's uid, under the overwrite flag.
C10_UpdateSubmits ==
    [][(last'.op = "Dashboard.update" /\ AllCallsOk(last')) =>
          LET current == dashboards[last'.args.uid].dashboard
          IN  /\ Len(last'.sent) = 1
              /\ last'.sent[1].overwrite
              /\ last'.sent[1].dashboard["version"] = IntV(SubmittedVersionOver(current))
              /\ last'.sent[1].dashboard["id"] = current["id"]
              /\ last'.sent[1].dashboard["uid"] = StrV(last'.args.uid)]_vars

\* What Dashboard.get returns in the current remote state when no call fails.
FetchedNow(uid) == Dashboard_get(Remote, Grafana, uid, <<0, 0>>).outcome

\* C11: after a successful Dashboard.create with folder reference F, or a
\* successful update of a Dashboard whose folder is F, Dashboard.get returns
\* a resource whose folder field is F; the folder field of every fetched
\* Dashboard is the uid of a remote folder, the one whose numeric id the
\* dashboard is filed under, never that numeric id.
C11_FolderRoundTrip ==
    /\ (LastIs("Dashboard.create") /\ last.outcome.kind = "return") =>
          /\ last.outcome.val.folder = last.args.folder
          /\ FetchedNow(last.args.uid) = last.outcome
    /\ (LastIs("Dashboard.update") /\ last.outcome.kind = "return") =>
          /\ FetchedNow(last.args.uid).kind = "return"
          /\ FetchedNow(last.args.uid).val.folder = last.args.folder
    /\ (last.op \in {"Dashboard.get", "Dashboard.create"} /\ last.outcome.kind = "return") =>
          /\ last.outcome.val.folder \in DOMAIN folders
          /\ folders[last.outcome.val.folder].id =
                dashboards[last.outcome.val.uid].meta.folderId

\* An update moved a dashboard to the second folder while the first folder
\* still exists, and a get now returns the second folder's uid.
C11_Witness ==
    /\ LastIs("Dashboard.update")
    /\ last.outcome.kind = "return"
    /\ last.args.folder = format_uid("folder_a_b")
    /\ format_uid("folder_a") \in DOMAIN folders
    /\ FetchedNow(last.args.uid).val.folder = format_uid("folder_a_b")

\* The resolved resource a Dashboard.create call was given, if it was given one.
ResolvedGiven ==
    {D \in ResolvedDashboards :
        /\ D.uid = last.args.uid
        /\ D.model = last.args.model
        /\ D.folder = last.args.folder}

\* C12: for every Dashboard resource D produced by stencil resolution, after
\* Dashboard.create(D.grafana, D.uid, D.model, D.folder) succeeds, the
\* serialize() of the fetched resource equals the serialize() of the freshly
\* resolved D: same kind, service, uid, model and folder.
C12_FetchCompareStable ==
    (LastIs("Dashboard.create") /\ last.outcome.kind = "return") =>
        \A D \in ResolvedGiven :
            /\ FetchedNow(D.uid) = last.outcome
            /\ Dashboard_serialize(last.outcome.val) = Dashboard_serialize(D)

\* A call in which no remote request fails.
NoFaults(n) == [i \in 1..n |-> 0]

\* Dashboard.create with the arguments of the call in `c`, on remote `rem`,
\* no request failing.  The body is the caller's dictionary as it stands.
CreateAgain(rem, c, model) ==
    Dashboard_create(rem, Grafana, c.args.uid, model, c.args.folder, NoFaults(5))

\* C13: Dashboard.create submits the body with id = null, uid = the given uid,
\* version = 1, folderId = the numeric id of the folder whose uid is the
\* folder reference, and the overwrite flag set; a second call with the same
\* arguments (also after a partial failure of the first, also over a
\* dashboard with a higher version) succeeds whenever a single call does and
\* leaves the remote a single call leaves; a returning call returns what get
\* reads back.
C13_CreateIdempotent ==
    [][(last = NoLast /\ last'.op = "Dashboard.create") =>
          LET single == CreateAgain(Remote, last', last'.args.model)
              again == CreateAgain(Remote', last', last'.body)
          IN  /\ \A i \in 1..Len(last'.sent) :
                    /\ last'.sent[i].dashboard["id"] = Null
                    /\ last'.sent[i].dashboard["uid"] = StrV(last'.args.uid)
                    /\ last'.sent[i].dashboard["version"] = IntV(1)
                    /\ last'.sent[i].overwrite
                    /\ last'.args.folder \in DOMAIN folders
                    /\ last'.sent[i].folderId = folders[last'.args.folder].id
              /\ single.outcome.kind = "return" =>
                    /\ again.outcome = single.outcome
                    /\ again.rem = single.rem
              /\ last'.outcome.kind = "return" =>
                    /\ last'.outcome = single.outcome
                    /\ Remote' = single.rem
                    /\ last'.outcome =
                          Dashboard_get(Remote', Grafana, last'.args.uid, NoFaults(2)).outcome
    ]_vars

\* A create that failed after its submission went through: the re-read
\* failed, the dashboard is stored with version 1.
C13_Witness ==
    /\ LastIs("Dashboard.create")
    /\ last.outcome.kind = "raise"
    /\ Len(last.sent) = 1
    /\ last.args.uid \in DOMAIN dashboards
    /\ dashboards[last.args.uid].dashboard["version"] = IntV(1)
    /\ CreateAgain(Remote, last, last.body).outcome.kind = "return"

\* Every stored dashboard carries the numeric id of a folder that exists.
DashboardsInLiveFolders ==
    \A d \in DOMAIN dashboards :
        \E f \in DOMAIN folders : folders[f].id = dashboards[d].meta.folderId

\* C14: Dashboard.create and Dashboard.update called while the referenced
\* folder uid does not exist remotely raise GrafanaError before any dashboard
\* is submitted; every dashboard written was submitted while its folder
\* existed, with that folder's numeric id, and every stored dashboard is in a
\* live folder.
C14_FolderBeforeDashboard ==
    [][(last = NoLast /\ last'.op \in {"Dashboard.create", "Dashboard.update"}) =>
          /\ last'.args.folder \notin DOMAIN folders =>
                /\ last'.outcome = Raise("GrafanaError")
                /\ last'.sent = <<>>
                /\ Remote' = Remote
          /\ \A i \in 1..Len(last'.sent) :
                /\ last'.args.folder \in DOMAIN folders
                /\ last'.sent[i].folderId = folders[last'.args.folder].id
          /\ DashboardsInLiveFolders'
    ]_vars

\* What Folder.exists and Folder.get answer on remote `rem` when no call fails.
ExistsIn(rem, uid) == Folder_exists(rem, Grafana, uid, NoFaults(1)).outcome
TitleIn(rem, uid) == Folder_get(rem, Grafana, uid, NoFaults(1)).outcome.val.model["title"]

\* C15: the lifecycle of one folder uid.  From absent, a create that returns
\* makes the folder present (exists answers True, get returns its title);
\* an update that returns keeps it present with the new title; a delete that
\* returns on a truthful answer of the remote makes it absent (exists
\* answers False); exists and get leave the remote state unchanged, whatever
\* they answer.
C15_FolderLifecycle ==
    [][last = NoLast =>
          LET uid == last'.args.uid
              returned == last'.outcome.kind = "return"
          IN  /\ (last'.op = "Folder.create" /\ returned /\ uid \notin DOMAIN folders) =>
                    /\ uid \in DOMAIN folders'
                    /\ ExistsIn(Remote', uid) = Return(TRUE)
                    /\ TitleIn(Remote', uid) = last'.args.model["title"]
              /\ (last'.op = "Folder.update" /\ returned) =>
                    /\ uid \in DOMAIN folders /\ uid \in DOMAIN folders'
                    /\ ExistsIn(Remote', uid) = Return(TRUE)
                    /\ TitleIn(Remote', uid) = last'.args.model["title"]
              /\ (last'.op = "Folder.delete" /\ returned
                    /\ ~(uid \in DOMAIN folders /\ last'.calls[1].status = 404)) =>
                    /\ uid \notin DOMAIN folders'
                    /\ ExistsIn(Remote', uid) = Return(FALSE)
              /\ last'.op \in {"Folder.exists", "Folder.get"} => Remote' = Remote
    ]_vars

\* A folder that was absent at the start, was created, and is absent again
\* after a delete the remote carried out.
C15_Witness ==
    /\ LastIs("Folder.delete")
    /\ last.outcome.kind = "return"
    /\ Status(1) = 200
    /\ last.args.uid = format_uid("folder_a_b")
    /\ last.args.uid \notin DOMAIN folders
    /\ ExistsIn(Remote, last.args.uid) = Return(FALSE)

\* The resource resolve builds from the j-th loop item of call c.
ResourceOfItem(c, j) ==
    LET rvars == resolve_vars(c.self, c.evaluations, c.lookups)
    IN  make_resource(c.self, c.self.provider, format_uid(InstanceNames(c)[j]),
                      Render(c.self.model, rvars.evaluations, rvars.lookups,
                             LoopItemsOf(c)[j]))

\* The last loop item of call c that produces instance name n.
LastItemNamed(c, n) ==
    CHOOSE j \in 1..Len(InstanceNames(c)) :
        /\ InstanceNames(c)[j] = n
        /\ \A k \in 1..Len(InstanceNames(c)) : InstanceNames(c)[k] = n => k <= j

Falsy == {Null, StrV(""), IntV(0)}

\* C17: format_name(kind, name, item) is kind_name_str(item) when the item is
\* truthy and exactly kind_name, no suffix, when the item is falsy: null, the
\* empty string or numeric zero.
C17_FormatNameTruthiness ==
    st.op = "format_uid" =>
        /\ st.item \in Falsy => st.resource_name = st.kind \o "_" \o st.name
        /\ st.item \notin Falsy =>
              st.resource_name = st.kind \o "_" \o st.name \o "_" \o PyStr(st.item)

\* The item 0 is present and falsy: the name has no suffix.
C17_Witness ==
    /\ st.op = "format_uid"
    /\ st.item = IntV(0)
    /\ st.kind = "dashboard"
    /\ st.name = "a"
    /\ st.resource_name = "dashboard_a"

\* C18: Folder.create and Folder.update called with a body that has no title
\* key raise DataError, not GrafanaError, make no remote call and leave the
\* remote state unchanged.
C18_MissingTitle ==
    [][(/\ last = NoLast
        /\ last'.op \in {"Folder.create", "Folder.update"}
        /\ "title" \notin DOMAIN last'.args.model) =>
          /\ last'.outcome = Raise("DataError")
          /\ last'.calls = <<>>
          /\ Remote' = Remote
    ]_vars

\* A create without title for a uid the remote does not hold: nothing was
\* called and the folder is still absent.
C18_Witness ==
    /\ LastIs("Folder.create")
    /\ last.args.model = EmptyDict
    /\ last.outcome = Raise("DataError")
    /\ last.calls = <<>>
    /\ last.args.uid \notin DOMAIN folders

\* The keys the remote assigns.
Volatile == {"id", "uid", "version"}

\* The Dashboard resource objects a caller holds once the call in `last` is
\* over: the resource returned, and the resolved resource whose model was
\* passed as the body, its model being the dictionary the call worked on.
HeldDashboards ==
    (IF last.op \in {"Dashboard.get", "Dashboard.create"} /\ last.outcome.kind = "return"
     THEN {last.outcome.val} ELSE {})
    \cup
    (IF last.op \in {"Dashboard.create", "Dashboard.update"}
     THEN {[D EXCEPT !.model = last.body] :
              D \in {R \in ResolvedDashboards :
                        R.uid = last.args.uid /\ R.model = last.args.model}}
     ELSE {})

\* C19: in every reachable state the model of every Dashboard resource object
\* has none of the keys id, uid, version; in particular Dashboard.create and
\* Dashboard.update do not leave them in the model of the resource whose
\* model was passed as the body.
C19_ModelExcludesVolatile ==
    \A D \in HeldDashboards : DOMAIN D.model \cap Volatile = {}

====
